---------------------------- MODULE Spec2Model ----------------------------
(***************************************************************************)
(* Model of the container dashboard's normalisation pipeline               *)
(* (src/docker_manager.py): the port parser, the infrastructure            *)
(* classifier, the name normaliser, the catalog builder, the configuration *)
(* loader and the container lister; and of the scheduler and web listener  *)
(* (src/update_dashboard.py): the control loop, the signal handler, the    *)
(* listener thread and the request handler, with index.html on disk.       *)
(*                                                                         *)
(* A Python str is modelled as a sequence of one-character strings, so     *)
(* that splitting, searching, replacing and case folding are computed the  *)
(* way the code computes them.                                             *)
(***************************************************************************)
EXTENDS Integers, Sequences, FiniteSets, TLC

VARIABLES
    clauses,      \* the port clauses the runtime printed (how ports_str was made)
    ports_str,    \* parse_ports: its argument
    ports,        \* parse_ports: its return value
    pp_pc,        \* "input" before parse_ports has run, "parsed" after
    db_name,      \* is_database_container: argument name
    db_image,     \* is_database_container: argument image
    db_result,    \* is_database_container: its return value
    db_pc,        \* "input" | "classified"
    cn_name,      \* clean_container_name: argument name
    cn_image,     \* clean_container_name: argument image
    cn_cleaned,   \* clean_container_name: cleaned_name as of line 213
    cn_out,       \* clean_container_name: its return value
    cn_prev,      \* the display name that was fed back in as the name, if any
    cn_pc,        \* "input" | "cleaned" | "refed"
    containers,   \* get_docker_containers: the records it returned
    services,     \* process_containers: its return value
    services_again, \* process_containers: the return value of a second call
    pc_pc,        \* "listing" | "processed" | "reprocessed"
    cfg_file,     \* load_config: what config.json holds on disk
    cfg_config,   \* load_config: its return value
    cfg_pc,       \* "stored" | "loaded"
    ls_outcome,   \* get_docker_containers: how subprocess.run ended
    ls_stdout,    \* get_docker_containers: result.stdout
    ls_containers, \* get_docker_containers: its return value
    ls_log,       \* get_docker_containers: what it printed
    ls_services,  \* generate_html: self.services
    ls_html,      \* generate_html: which body it rendered
    ls_pc,        \* "runtime" | "listed" | "rendered"
    running,      \* DashboardUpdater.running
    main_pc,      \* main thread: where run() is
    web_enabled,  \* DashboardUpdater.web_enabled
    web_pc,       \* listener thread: where start_web_server() is
    signals,      \* number of SIGINT/SIGTERM delivered so far
    age_last,     \* seconds since the instant stored in last_update
    age_cur,      \* seconds since the instant stored in current_time
    age_run,      \* seconds since the previous scheduled run started
    gap,          \* age_run as it was when the latest loop run started
    last_result,  \* what update_dashboard last returned
    index_html,   \* index.html on disk
    writers,      \* threads that hold index.html open for writing
    tainted,      \* the latest write failed or overlapped another write
    last_completed, \* HTML of the most recently completed pipeline run
    main_page,    \* HTML the main thread's run rendered
    web_page,     \* HTML the handler's run rendered
    request,      \* path of the request the handler is serving
    response      \* what the handler has sent for it

vars == << clauses, ports_str, ports, pp_pc,
           db_name, db_image, db_result, db_pc,
           cn_name, cn_image, cn_cleaned, cn_out, cn_prev, cn_pc,
           containers, services, services_again, pc_pc,
           cfg_file, cfg_config, cfg_pc,
           ls_outcome, ls_stdout, ls_containers, ls_log, ls_services,
           ls_html, ls_pc,
           running, main_pc, web_enabled, web_pc, signals,
           age_last, age_cur, age_run, gap, last_result,
           index_html, writers, tainted, last_completed,
           main_page, web_page, request, response >>

portVars == << clauses, ports_str, ports, pp_pc >>
dbVars   == << db_name, db_image, db_result, db_pc >>
cnVars   == << cn_name, cn_image, cn_cleaned, cn_out, cn_prev, cn_pc >>
pcVars   == << containers, services, services_again, pc_pc >>
cfgVars  == << cfg_file, cfg_config, cfg_pc >>
lsVars   == << ls_outcome, ls_stdout, ls_containers, ls_log, ls_services,
               ls_html, ls_pc >>
loopVars == << running, main_pc, signals, age_last, age_cur, age_run, gap,
               last_result, main_page >>
webVars  == << web_enabled, web_pc, web_page, request, response >>
diskVars == << index_html, writers, tainted, last_completed >>
upVars   == << loopVars, webVars, diskVars >>

----------------------------------------------------------------------------
(* Characters *)

Digits == {"0","1","2","3","4","5","6","7","8","9"}

UpperSeq == <<"A","B","C","D","E","F","G","H","I","J","K","L","M",
              "N","O","P","Q","R","S","T","U","V","W","X","Y","Z">>
LowerSeq == <<"a","b","c","d","e","f","g","h","i","j","k","l","m",
              "n","o","p","q","r","s","t","u","v","w","x","y","z">>

UpperSet == {UpperSeq[i] : i \in 1..26}
LowerSet == {LowerSeq[i] : i \in 1..26}

\* The other characters that occur in names, images and port strings.
Punct == <<" ", "-", ".", "/", ":", "@", "[", "]", "_", ",", ">">>

\* Code points, for the comparison of strings (str.__lt__ compares by code point).
PunctCode == <<32, 45, 46, 47, 58, 64, 91, 93, 95, 44, 62>>

Ord(c) ==
    IF c \in Digits THEN 48 + (CHOOSE d \in 0..9 : ToString(d) = c)
    ELSE IF c \in UpperSet THEN 64 + (CHOOSE i \in 1..26 : UpperSeq[i] = c)
    ELSE IF c \in LowerSet THEN 96 + (CHOOSE i \in 1..26 : LowerSeq[i] = c)
    ELSE PunctCode[CHOOSE i \in 1..Len(Punct) : Punct[i] = c]

LowerChar(c) ==
    IF c \in UpperSet THEN LowerSeq[CHOOSE i \in 1..26 : UpperSeq[i] = c] ELSE c

UpperChar(c) ==
    IF c \in LowerSet THEN UpperSeq[CHOOSE i \in 1..26 : LowerSeq[i] = c] ELSE c

\* [a-zA-Z0-9]
IsAlnum(c) == c \in Digits \/ c \in UpperSet \/ c \in LowerSet

\* str.isspace, for the one whitespace character of the model
IsSpace(c) == c = " "

----------------------------------------------------------------------------
(* Python str operations *)

\* str.lower
lower(s) == [i \in 1..Len(s) |-> LowerChar(s[i])]

\* str.startswith / str.endswith
startswith(s, p) == Len(p) <= Len(s) /\ SubSeq(s, 1, Len(p)) = p
endswith(s, p)   == Len(p) <= Len(s) /\ SubSeq(s, Len(s) - Len(p) + 1, Len(s)) = p

\* str.find, 1-based, 0 when absent
find(s, p) ==
    IF p = << >> THEN 1
    ELSE LET at == {i \in 1..(Len(s) - Len(p) + 1) :
                        s[i] = p[1] /\ SubSeq(s, i, i + Len(p) - 1) = p}
         IN  IF at = {} THEN 0 ELSE CHOOSE i \in at : \A j \in at : i <= j

\* p in s
contains(s, p) == find(s, p) # 0

\* str.split(sep): never empty, cut at each non-overlapping sep from the left
RECURSIVE split(_, _)
split(s, sep) ==
    LET i == find(s, sep)
    IN  IF i = 0 THEN << s >>
        ELSE << SubSeq(s, 1, i - 1) >> \o split(SubSeq(s, i + Len(sep), Len(s)), sep)

\* str.replace(old, new): every non-overlapping old, from the left
RECURSIVE replace(_, _, _)
replace(s, old, new) ==
    LET i == find(s, old)
    IN  IF i = 0 THEN s
        ELSE SubSeq(s, 1, i - 1) \o new
             \o replace(SubSeq(s, i + Len(old), Len(s)), old, new)

\* str.strip(chars) for a set of characters
strip_chars(s, cs) ==
    LET keep == {i \in 1..Len(s) : s[i] \notin cs}
    IN  IF keep = {} THEN << >>
        ELSE SubSeq(s, CHOOSE i \in keep : \A j \in keep : i <= j,
                       CHOOSE i \in keep : \A j \in keep : j <= i)

\* str.strip()
strip(s) == strip_chars(s, {" "})

\* The longest run of digits of s that starts at index i
digit_run(s, i) ==
    LET stop == {j \in i..Len(s) : s[j] \notin Digits}
        last == IF stop = {} THEN Len(s)
                ELSE (CHOOSE j \in stop : \A k \in stop : j <= k) - 1
    IN  SubSeq(s, i, last)

\* re.search(r'(\d+)', s).group(1), << >> when there is no match
search_digits(s) ==
    LET at == {i \in 1..Len(s) : s[i] \in Digits}
    IN  IF at = {} THEN << >>
        ELSE digit_run(s, CHOOSE i \in at : \A j \in at : i <= j)

\* re.search(r':(\d+)', s).group(1), << >> when there is no match
search_colon_digits(s) ==
    LET at == {i \in 1..(Len(s) - 1) : s[i] = ":" /\ s[i + 1] \in Digits}
    IN  IF at = {} THEN << >>
        ELSE digit_run(s, (CHOOSE i \in at : \A j \in at : i <= j) + 1)

\* sep.join(words)
RECURSIVE join(_, _)
join(words, sep) ==
    IF words = << >> THEN << >>
    ELSE IF Len(words) = 1 THEN words[1]
    ELSE words[1] \o sep \o join(Tail(words), sep)

----------------------------------------------------------------------------
(* DockerManager.parse_ports *)

\* parse_mapping without the test for a leading "::" (a bare IPv6 address is
\* then read as a shorthand mapping).
parse_mapping_without_ipv6_test(raw) ==
    LET mapping == strip(raw)
    IN  IF contains(mapping, <<"-", ">">>)
        THEN LET parts == split(mapping, <<"-", ">">>)
             IN  IF Len(parts) = 2
                 THEN LET host_port      == search_colon_digits(strip(parts[1]))
                          container_port == search_digits(strip(parts[2]))
                      IN  IF host_port # << >> /\ container_port # << >>
                          THEN << << host_port, container_port >> >>
                          ELSE << >>
                 ELSE << >>
        ELSE IF contains(mapping, <<":">>)
        THEN LET parts == split(mapping, <<":">>)
             IN  << << strip(parts[1]), split(strip(parts[2]), <<"/">>)[1] >> >>
        ELSE << >>

\* The body of the loop over port_mappings: the mappings one clause adds.
parse_mapping(raw) ==
    LET mapping == strip(raw)
    IN  IF contains(mapping, <<"-", ">">>)
        THEN LET parts == split(mapping, <<"-", ">">>)
             IN  IF Len(parts) = 2
                 THEN LET host_part      == strip(parts[1])
                          container_part == strip(parts[2])
                          host_port      == search_colon_digits(host_part)
                          container_port == search_digits(container_part)
                      IN  IF host_port # << >> /\ container_port # << >>
                          THEN << << host_port, container_port >> >>
                          ELSE << >>
                 ELSE << >>
        ELSE IF contains(mapping, <<":">>) /\ ~startswith(mapping, <<":", ":">>)
        THEN LET parts == split(mapping, <<":">>)
             IN  IF Len(parts) >= 2
                 THEN << << strip(parts[1]), split(strip(parts[2]), <<"/">>)[1] >> >>
                 ELSE << >>
        ELSE << >>

RECURSIVE parse_mappings(_)
parse_mappings(port_mappings) ==
    IF port_mappings = << >> THEN << >>
    ELSE parse_mapping(port_mappings[1]) \o parse_mappings(Tail(port_mappings))

parse_ports(s) ==
    IF s = << >> THEN << >> ELSE parse_mappings(split(s, <<",">>))


----------------------------------------------------------------------------
(* DockerManager.is_database_container *)

\* mysql postgres postgresql mongo mongodb redis database db sql nosql mariadb
\* sqlite cassandra elasticsearch influxdb couchdb neo4j orientdb couchbase
\* dynamodb firebase rethinkdb arangodb timescaledb clickhouse questdb quest
\* supabase planetscale neon railway vercel supabase db- -db _db db_
\* database- -database _database
database_keywords ==
    << <<"m","y","s","q","l">>, <<"p","o","s","t","g","r","e","s">>, <<"p","o","s","t","g","r","e","s","q","l">>,
      <<"m","o","n","g","o">>, <<"m","o","n","g","o","d","b">>, <<"r","e","d","i","s">>,
      <<"d","a","t","a","b","a","s","e">>, <<"d","b">>, <<"s","q","l">>,
      <<"n","o","s","q","l">>, <<"m","a","r","i","a","d","b">>, <<"s","q","l","i","t","e">>,
      <<"c","a","s","s","a","n","d","r","a">>, <<"e","l","a","s","t","i","c","s","e","a","r","c","h">>, <<"i","n","f","l","u","x","d","b">>,
      <<"c","o","u","c","h","d","b">>, <<"n","e","o","4","j">>, <<"o","r","i","e","n","t","d","b">>,
      <<"c","o","u","c","h","b","a","s","e">>, <<"d","y","n","a","m","o","d","b">>, <<"f","i","r","e","b","a","s","e">>,
      <<"r","e","t","h","i","n","k","d","b">>, <<"a","r","a","n","g","o","d","b">>, <<"t","i","m","e","s","c","a","l","e","d","b">>,
      <<"c","l","i","c","k","h","o","u","s","e">>, <<"q","u","e","s","t","d","b">>, <<"q","u","e","s","t">>,
      <<"s","u","p","a","b","a","s","e">>, <<"p","l","a","n","e","t","s","c","a","l","e">>, <<"n","e","o","n">>,
      <<"r","a","i","l","w","a","y">>, <<"v","e","r","c","e","l">>, <<"s","u","p","a","b","a","s","e">>,
      <<"d","b","-">>, <<"-","d","b">>, <<"_","d","b">>,
      <<"d","b","_">>, <<"d","a","t","a","b","a","s","e","-">>, <<"-","d","a","t","a","b","a","s","e">>,
      <<"_","d","a","t","a","b","a","s","e">>
    >>

\* is_database_container looking at the name alone.
is_database_container_name_only(name, image) ==
    LET name_lower == lower(name)
    IN  \E k \in 1..Len(database_keywords) : contains(name_lower, database_keywords[k])

is_database_container(name, image) ==
    LET name_lower  == lower(name)
        image_lower == lower(image)
    IN  \E k \in 1..Len(database_keywords) :
            \/ contains(name_lower, database_keywords[k])
            \/ contains(image_lower, database_keywords[k])

----------------------------------------------------------------------------
(* DockerManager.clean_container_name *)

\* The generic terms, in the order of the source list (three per row).
generic_terms ==
    << <<"f","r","o","n","t","e","n","d">>, <<"b","a","c","k","e","n","d">>, <<"s","e","r","v","e","r">>,
      <<"d","o","c","k","e","r">>, <<"a","p","p">>, <<"w","e","b">>,
      <<"a","p","i">>, <<"s","e","r","v","i","c","e">>, <<"c","o","n","t","a","i","n","e","r">>,
      <<"i","n","s","t","a","n","c","e">>, <<"m","a","i","n">>, <<"p","r","i","m","a","r","y">>,
      <<"d","e","f","a","u","l","t">>, <<"p","r","o","d">>, <<"p","r","o","d","u","c","t","i","o","n">>,
      <<"d","e","v">>, <<"d","e","v","e","l","o","p","m","e","n","t">>, <<"t","e","s","t">>,
      <<"t","e","s","t","i","n","g">>, <<"s","t","a","g","i","n","g">>, <<"p","r","e","v","i","e","w">>,
      <<"d","e","m","o">>, <<"e","x","a","m","p","l","e">>, <<"s","a","m","p","l","e">>,
      <<"t","e","m","p">>, <<"t","m","p">>, <<"n","g","i","n","x">>,
      <<"p","r","o","x","y">>, <<"g","a","t","e","w","a","y">>, <<"r","o","u","t","e","r">>,
      <<"l","o","a","d","b","a","l","a","n","c","e","r">>, <<"l","b">>, <<"c","a","c","h","e">>,
      <<"r","e","d","i","s">>, <<"d","b">>, <<"d","a","t","a","b","a","s","e">>,
      <<"s","q","l">>, <<"n","o","s","q","l">>, <<"s","t","o","r","a","g","e">>,
      <<"f","i","l","e">>, <<"f","i","l","e","s">>, <<"u","p","l","o","a","d">>,
      <<"d","o","w","n","l","o","a","d">>, <<"s","t","a","t","i","c">>, <<"a","s","s","e","t","s">>,
      <<"m","e","d","i","a">>, <<"i","m","a","g","e">>, <<"i","m","a","g","e","s">>,
      <<"v","i","d","e","o">>, <<"a","u","d","i","o">>, <<"m","u","s","i","c">>,
      <<"p","h","o","t","o">>, <<"a","d","m","i","n">>, <<"m","a","n","a","g","e","m","e","n","t">>,
      <<"d","a","s","h","b","o","a","r","d">>, <<"p","a","n","e","l">>, <<"c","o","n","t","r","o","l">>,
      <<"c","o","n","f","i","g">>, <<"s","e","t","u","p">>, <<"i","n","s","t","a","l","l">>,
      <<"i","n","i","t">>, <<"b","o","o","t","s","t","r","a","p">>, <<"s","t","a","r","t","u","p">>,
      <<"l","a","u","n","c","h","e","r">>, <<"r","u","n","n","e","r">>, <<"e","x","e","c","u","t","o","r">>,
      <<"w","o","r","k","e","r">>, <<"p","r","o","c","e","s","s","o","r">>, <<"h","a","n","d","l","e","r">>,
      <<"m","a","n","a","g","e","r">>, <<"c","o","n","t","r","o","l","l","e","r">>, <<"m","o","n","i","t","o","r">>,
      <<"w","a","t","c","h","e","r">>, <<"o","b","s","e","r","v","e","r">>, <<"l","i","s","t","e","n","e","r">>,
      <<"r","e","c","e","i","v","e","r">>, <<"s","e","n","d","e","r">>, <<"p","u","b","l","i","s","h","e","r">>,
      <<"s","u","b","s","c","r","i","b","e","r">>, <<"c","o","n","s","u","m","e","r">>, <<"p","r","o","d","u","c","e","r">>,
      <<"g","e","n","e","r","a","t","o","r">>, <<"c","r","e","a","t","o","r">>, <<"b","u","i","l","d","e","r">>,
      <<"c","o","m","p","i","l","e","r">>, <<"t","r","a","n","s","f","o","r","m","e","r">>, <<"c","o","n","v","e","r","t","e","r">>,
      <<"p","a","r","s","e","r">>, <<"a","n","a","l","y","z","e","r">>, <<"s","c","a","n","n","e","r">>,
      <<"c","r","a","w","l","e","r">>, <<"s","p","i","d","e","r">>, <<"b","o","t">>,
      <<"a","g","e","n","t">>, <<"d","a","e","m","o","n">>, <<"p","r","o","c","e","s","s">>,
      <<"t","h","r","e","a","d">>, <<"t","a","s","k">>, <<"j","o","b">>,
      <<"w","o","r","k">>, <<"o","p","e","r","a","t","i","o","n">>, <<"f","u","n","c","t","i","o","n">>,
      <<"m","o","d","u","l","e">>, <<"c","o","m","p","o","n","e","n","t">>, <<"p","a","r","t">>,
      <<"p","i","e","c","e">>, <<"u","n","i","t">>, <<"e","l","e","m","e","n","t">>,
      <<"i","t","e","m">>, <<"o","b","j","e","c","t">>, <<"e","n","t","i","t","y">>,
      <<"r","e","c","o","r","d">>, <<"e","n","t","r","y">>, <<"r","o","w">>,
      <<"l","i","n","e">>, <<"n","o","d","e">>, <<"p","o","i","n","t">>,
      <<"s","p","o","t">>, <<"p","l","a","c","e">>, <<"l","o","c","a","t","i","o","n">>,
      <<"p","o","s","i","t","i","o","n">>, <<"s","i","t","e">>, <<"a","r","e","a">>,
      <<"z","o","n","e">>, <<"r","e","g","i","o","n">>, <<"s","e","c","t","i","o","n">>,
      <<"s","e","g","m","e","n","t">>, <<"c","h","u","n","k">>, <<"b","l","o","c","k">>,
      <<"f","r","a","g","m","e","n","t">>, <<"p","o","r","t","i","o","n">>, <<"b","i","t">>,
      <<"p","a","r","t">>, <<"w","e","b","s","e","r","v","i","c","e">>, <<"w","e","b","s","e","r","v","e","r">>,
      <<"w","e","b","u","i">>, <<"w","e","b","-","u","i">>, <<"u","i">>,
      <<"i","n","t","e","r","f","a","c","e">>, <<"1">>, <<"2">>,
      <<"3">>, <<"4">>, <<"5">>,
      <<"6">>, <<"7">>, <<"8">>,
      <<"9">>, <<"0">>, <<"-","1">>,
      <<"-","2">>, <<"-","3">>, <<"-","4">>,
      <<"-","5">>, <<"-","6">>, <<"-","7">>,
      <<"-","8">>, <<"-","9">>, <<"-","0">>
    >>

separators == << <<"-">>, <<"_">>, <<".">>, <<" ">> >>

\* The three removals of one term with one separator (the inner loop's body).
strip_term_sep(cleaned_name, term, separator) ==
    LET s1 == replace(cleaned_name, separator \o term \o separator, separator)
        p2 == term \o separator
        s2 == IF startswith(s1, p2) THEN SubSeq(s1, Len(p2) + 1, Len(s1)) ELSE s1
        p3 == separator \o term
        s3 == IF endswith(s2, p3) THEN SubSeq(s2, 1, Len(s2) - Len(p3)) ELSE s2
    IN  s3

\* for separator in ['-', '_', '.', ' ']
\* (each of the patterns holds the term: a name without the term is left as is)
strip_term(cleaned_name, term) ==
    IF ~contains(cleaned_name, term) THEN cleaned_name
    ELSE
    strip_term_sep(
        strip_term_sep(
            strip_term_sep(
                strip_term_sep(cleaned_name, term, separators[1]),
                term, separators[2]),
            term, separators[3]),
        term, separators[4])

\* for term in generic_terms: one pass over terms lo..hi of the list, in order
\* (the range is halved so that the evaluation stays shallow; no term can be
\* removed from the empty string, so the pass ends when nothing is left)
RECURSIVE strip_terms(_, _, _)
strip_terms(cleaned_name, lo, hi) ==
    IF lo > hi THEN cleaned_name
    ELSE IF lo = hi THEN strip_term(cleaned_name, generic_terms[lo])
    ELSE LET mid == (lo + hi) \div 2
             left == strip_terms(cleaned_name, lo, mid)
         IN  IF Len(left) = 0 THEN left ELSE strip_terms(left, mid + 1, hi)

\* for separator in [...]: cleaned_name = cleaned_name.strip(separator)
strip_separators(s) ==
    strip_chars(strip_chars(strip_chars(strip_chars(s, {"-"}), {"_"}), {"."}), {" "})

\* re.split(r'[^a-zA-Z0-9]+', s): empty strings included
RECURSIVE re_split_nonalnum(_)
re_split_nonalnum(s) ==
    LET cut == {i \in 1..Len(s) : ~IsAlnum(s[i])}
    IN  IF cut = {} THEN << s >>
        ELSE LET i    == CHOOSE x \in cut : \A y \in cut : x <= y
                 more == {j \in (i + 1)..Len(s) : IsAlnum(s[j])}
                 rest == IF more = {} THEN << >>
                         ELSE SubSeq(s, CHOOSE x \in more : \A y \in more : x <= y, Len(s))
             IN  << SubSeq(s, 1, i - 1) >> \o re_split_nonalnum(rest)

\* The non-empty words, without case-insensitive repeats, in first-seen order
RECURSIVE unique_words(_, _)
unique_words(words, seen) ==
    IF words = << >> THEN seen
    ELSE LET word == words[1]
         IN  IF word # << >> /\ \A i \in 1..Len(seen) : lower(seen[i]) # lower(word)
             THEN unique_words(Tail(words), Append(seen, word))
             ELSE unique_words(Tail(words), seen)

\* str.split(): the runs of non-whitespace characters
RECURSIVE split_whitespace(_)
split_whitespace(s) ==
    LET t == strip(s)
        ws == {i \in 1..Len(t) : IsSpace(t[i])}
    IN  IF t = << >> THEN << >>
        ELSE IF ws = {} THEN << t >>
        ELSE LET i == CHOOSE x \in ws : \A y \in ws : x <= y
             IN  << SubSeq(t, 1, i - 1) >> \o split_whitespace(SubSeq(t, i + 1, Len(t)))

\* str.capitalize
capitalize(w) ==
    [i \in 1..Len(w) |-> IF i = 1 THEN UpperChar(w[1]) ELSE LowerChar(w[i])]

\* ' '.join(word.capitalize() for word in s.split())
capitalize_words(s) ==
    LET ws == split_whitespace(s)
    IN  join([i \in 1..Len(ws) |-> capitalize(ws[i])], <<" ">>)

\* image.split('/')[-1].split(':')[0].split('@')[0]
image_parts(image) ==
    LET by_slash == split(image, <<"/">>)
    IN  split(split(by_slash[Len(by_slash)], <<":">>)[1], <<"@">>)[1]

\* cleaned_name before the length test (lines 185 to 213)
cleaned_name_of(name) ==
    LET stripped == strip_separators(strip_terms(lower(name), 1, Len(generic_terms)))
        words    == re_split_nonalnum(stripped)
    IN  join(unique_words(words, << >>), <<" ">>)

\* display_name_of with the length test off by one (len(cleaned_name) <= 3).
display_name_of_len_le_3(cleaned_name, image) ==
    capitalize_words(IF Len(cleaned_name) <= 3 \/ cleaned_name = << >>
                     THEN image_parts(image)
                     ELSE cleaned_name)

\* The length test and the capitalisation (lines 215 to 222)
display_name_of(cleaned_name, image) ==
    capitalize_words(IF Len(cleaned_name) < 3 \/ cleaned_name = << >>
                     THEN image_parts(image)
                     ELSE cleaned_name)

clean_container_name(name, image) == display_name_of(cleaned_name_of(name), image)

----------------------------------------------------------------------------
(* DockerManager.process_containers *)

\* a < b for two str: by code point, a proper prefix first
str_lt(a, b) ==
    LET n    == IF Len(a) < Len(b) THEN Len(a) ELSE Len(b)
        diff == {i \in 1..n : a[i] # b[i]}
    IN  IF diff = {} THEN Len(a) < Len(b)
        ELSE LET i == CHOOSE x \in diff : \A y \in diff : x <= y
             IN  Ord(a[i]) < Ord(b[i])

\* The key without .lower(): a case-sensitive sort.
sort_key_case_sensitive(service) == service.name

\* key=lambda x: x.name.lower()
sort_key(service) == lower(service.name)

\* list.sort is stable: x goes after every element whose key is not greater.
insert_sorted(sorted, x) ==
    LET greater == {i \in 1..Len(sorted) : str_lt(sort_key(x), sort_key(sorted[i]))}
        at      == IF greater = {} THEN Len(sorted) + 1
                   ELSE CHOOSE i \in greater : \A j \in greater : i <= j
    IN  SubSeq(sorted, 1, at - 1) \o << x >> \o SubSeq(sorted, at, Len(sorted))

\* services.sort(key=lambda x: x.name.lower())
RECURSIVE sort_services_from(_, _, _)
sort_services_from(list, k, sorted) ==
    IF k > Len(list) THEN sorted
    ELSE sort_services_from(list, k + 1, insert_sorted(sorted, list[k]))

sort_services(list) == sort_services_from(list, 1, << >>)

\* A service that keeps the image's last path segment instead of the image.
DockerService_with_base_image(cleaned_name, image, status, port_list, k) ==
    [ name        |-> cleaned_name,
      image       |-> image_parts(image),
      status      |-> status,
      ports       |-> port_list,
      github_repo |-> "None",
      category    |-> "Other",
      description |-> "",
      src         |-> k ]

\* DockerService(name=cleaned_name, image=image, status=status, ports=ports);
\* src is not a field of the code: the index of the container record the
\* service was made from, kept to state where a service comes from.
DockerService(cleaned_name, image, status, port_list, k) ==
    [ name        |-> cleaned_name,
      image       |-> image,
      status      |-> status,
      ports       |-> port_list,
      github_repo |-> "None",
      category    |-> "Other",
      description |-> "",
      src         |-> k ]

\* The loop without "if not ports: continue".
RECURSIVE collect_services_without_port_test(_, _, _)
collect_services_without_port_test(list, k, acc) ==
    IF k > Len(list) THEN acc
    ELSE LET container == list[k]
         IN  IF is_database_container(container.Name, container.Image)
             THEN collect_services_without_port_test(list, k + 1, acc)
             ELSE collect_services_without_port_test(list, k + 1,
                      Append(acc, DockerService(
                                      clean_container_name(container.Name, container.Image),
                                      container.Image, container.Status,
                                      parse_ports(container.Ports), k)))

\* The loop over containers, from the k-th record on.
RECURSIVE collect_services(_, _, _)
collect_services(list, k, acc) ==
    IF k > Len(list) THEN acc
    ELSE LET container  == list[k]
             name       == container.Name
             image      == container.Image
             port_list  == parse_ports(container.Ports)
             status     == container.Status
         IN  IF is_database_container(name, image)
             THEN collect_services(list, k + 1, acc)
             ELSE IF port_list = << >>
             THEN collect_services(list, k + 1, acc)
             ELSE collect_services(list, k + 1,
                      Append(acc, DockerService(clean_container_name(name, image),
                                                image, status, port_list, k)))

process_containers(list) == sort_services(collect_services(list, 1, << >>))

----------------------------------------------------------------------------
(* The port strings the runtime prints: clauses joined by ", " *)

MaxClauses == 2

\* Host interface prefixes of an explicit mapping: IPv4, IPv6 any-address,
\* empty, and an IPv6 address with a digit group after a colon.
HostInterfaces == { <<"0",".","0",".","0",".","0">>, <<"[",":",":","]">>, << >>, <<"[","f","e","8","0",":",":","1","]">> }

\* <host port, container port>
PortPairs == { << <<"8","0","8","0">>, <<"8","0">> >>, << <<"9","0","9","0">>, <<"9","0">> >> }

ShortPairs == { << <<"5","4","3","2">>, <<"5","4","3","2">> >>, << <<"8","0","8","0">>, <<"8","0">> >> }

Protos == { <<"t","c","p">> }

\* Clauses of neither documented shape.
RawTexts == { <<"8","0","/","t","c","p">>, <<":",":","1">>, <<":",":">>, <<":">>, <<"a",":","b">>, << >>, <<"1","-",">","2","-",">","3">> }

\* <ip>:<host>-><container>/<proto>
ArrowClauses ==
    { [kind |-> "arrow", ip |-> ip, host |-> p[1], cont |-> p[2], proto |-> pr, text |-> << >>] :
        ip \in HostInterfaces, p \in PortPairs, pr \in Protos }

\* <host>:<container>/<proto>
ShortClauses ==
    { [kind |-> "short", ip |-> << >>, host |-> p[1], cont |-> p[2], proto |-> pr, text |-> << >>] :
        p \in ShortPairs, pr \in Protos }

RawClauses ==
    { [kind |-> "raw", ip |-> << >>, host |-> << >>, cont |-> << >>, proto |-> << >>, text |-> t] :
        t \in RawTexts }

ClausePool == ArrowClauses \cup ShortClauses \cup RawClauses

\* The text of one clause.
ClauseText(c) ==
    IF c.kind = "arrow"
    THEN c.ip \o <<":">> \o c.host \o <<"-", ">">> \o c.cont \o <<"/">> \o c.proto
    ELSE IF c.kind = "short"
    THEN c.host \o <<":">> \o c.cont \o <<"/">> \o c.proto
    ELSE c.text

\* The Ports column: the clauses' texts joined by ", ".
PortsColumn(cs) == join([i \in 1..Len(cs) |-> ClauseText(cs[i])], <<",", " ">>)

----------------------------------------------------------------------------
(* Idle values of each group of variables *)

PortsIdle ==
    /\ clauses = << >>
    /\ ports_str = << >>
    /\ ports = << >>
    /\ pp_pc = "idle"

ClassifierIdle ==
    /\ db_name = << >>
    /\ db_image = << >>
    /\ db_result = FALSE
    /\ db_pc = "idle"

NormalizerIdle ==
    /\ cn_name = << >>
    /\ cn_image = << >>
    /\ cn_cleaned = << >>
    /\ cn_out = << >>
    /\ cn_prev = << >>
    /\ cn_pc = "idle"

CatalogIdle ==
    /\ containers = << >>
    /\ services = << >>
    /\ services_again = << >>
    /\ pc_pc = "idle"

ConfigIdle ==
    /\ cfg_file = [ type |-> "absent" ]
    /\ cfg_config = [ type |-> "none" ]
    /\ cfg_pc = "idle"

ListerIdle ==
    /\ ls_outcome = "none"
    /\ ls_stdout = << >>
    /\ ls_containers = << >>
    /\ ls_log = << >>
    /\ ls_services = << >>
    /\ ls_html = "none"
    /\ ls_pc = "idle"

UpdaterIdle ==
    /\ running = FALSE
    /\ main_pc = "idle"
    /\ web_enabled = FALSE
    /\ web_pc = "idle"
    /\ signals = 0
    /\ age_last = 0
    /\ age_cur = 0
    /\ age_run = 0
    /\ gap = 0
    /\ last_result = "none"
    /\ index_html = "absent"
    /\ writers = {}
    /\ tainted = FALSE
    /\ last_completed = "none"
    /\ main_page = "none"
    /\ web_page = "none"
    /\ request = "none"
    /\ response = << >>

----------------------------------------------------------------------------
(* Specification of parse_ports *)

InitPorts ==
    /\ clauses = << >>
    /\ ports_str = << >>
    /\ ports = << >>
    /\ pp_pc = "input"
    /\ ClassifierIdle /\ NormalizerIdle /\ CatalogIdle
    /\ ConfigIdle /\ ListerIdle /\ UpdaterIdle

\* The runtime prints one more clause in the Ports column.
AddClause(c) ==
    /\ pp_pc = "input"
    /\ Len(clauses) < MaxClauses
    /\ clauses' = Append(clauses, c)
    /\ ports_str' = PortsColumn(clauses')
    /\ UNCHANGED << ports, pp_pc >>
    /\ UNCHANGED << dbVars, cnVars, pcVars, cfgVars, lsVars, upVars >>

\* ports = self.parse_ports(ports_str)
ParsePorts ==
    /\ pp_pc = "input"
    /\ ports' = parse_ports(ports_str)
    /\ pp_pc' = "parsed"
    /\ UNCHANGED << clauses, ports_str >>
    /\ UNCHANGED << dbVars, cnVars, pcVars, cfgVars, lsVars, upVars >>

NextPorts ==
    \/ \E c \in ClausePool : AddClause(c)
    \/ ParsePorts


SpecPorts == InitPorts /\ [][NextPorts]_vars

----------------------------------------------------------------------------
(* Specification of is_database_container *)

\* Names and image references given to the classifier, in either position.
ClassifierStrings ==
    { <<"m","y","p","g">>, <<"a","l","p","i","n","e">>, <<"m","y","a","p","p">>, <<"p","o","s","t","g","r","e","s",":","1","5">>, <<"w","e","b","a","p","p">>,
      <<"m","y","o","r","g","/","w","e","b","a","p","p",":","l","a","t","e","s","t">>, <<"M","y","D","B","-","1">>, <<"R","e","d","i","s">>, <<"n","e","o","n","-","u","i">>, <<"a","p","p","_","d","b">>, << >> }

InitClassifier ==
    /\ db_name \in ClassifierStrings
    /\ db_image \in ClassifierStrings
    /\ db_result = FALSE
    /\ db_pc = "input"
    /\ PortsIdle /\ NormalizerIdle /\ CatalogIdle
    /\ ConfigIdle /\ ListerIdle /\ UpdaterIdle

\* self.is_database_container(name, image)
Classify ==
    /\ db_pc = "input"
    /\ db_result' = is_database_container(db_name, db_image)
    /\ db_pc' = "classified"
    /\ UNCHANGED << db_name, db_image >>
    /\ UNCHANGED << portVars, cnVars, pcVars, cfgVars, lsVars, upVars >>

NextClassifier == Classify

SpecClassifier == InitClassifier /\ [][NextClassifier]_vars

----------------------------------------------------------------------------
(* Specification of clean_container_name *)

MaxWords == 2

\* Segments of a container name: generic terms, a digit, a word of no list.
NameWords == { <<"s","e","r","v","e","r">>, <<"w","e","b">>, <<"a","p","p">>, <<"1">>, <<"f","o","o">>, <<"a","b">> }

NameSeparators == { <<"-">>, <<"_">>, <<".">>, <<" ">> }

ImageRefs == { <<"n","g","i","n","x",":","a","l","p","i","n","e">>, <<"m","y","o","r","g","/","m","y","a","p","p",":","1",".","0">>, <<"r","e","g",":","5","0","0","0","/","w","e","b","-","a","p","p","@","s","h","a",":","1">>, << >> }

\* The names of at most n segments joined by separators.
RECURSIVE NamesOf(_)
NamesOf(n) ==
    IF n = 0 THEN {}
    ELSE IF n = 1 THEN NameWords
    ELSE NamesOf(n - 1)
         \cup { a \o sep \o w : a \in NamesOf(n - 1), sep \in NameSeparators, w \in NameWords }

\* Some names of more segments, and one in capitals.
LongerNames == { <<"a","p","i","_","b","a","c","k","e","n","d",".","2">>, <<"m","y","a","p","p","-","f","r","o","n","t","e","n","d","-","1">>, <<"f","o","o","_","s","e","r","v","e","r","-","b","a","r">>, <<"M","y","A","p","p","_","S","e","r","v","e","r">> }

InitNormalizer ==
    /\ cn_name \in NamesOf(MaxWords) \cup LongerNames
    /\ cn_image \in ImageRefs
    /\ cn_cleaned = << >>
    /\ cn_out = << >>
    /\ cn_prev = << >>
    /\ cn_pc = "input"
    /\ PortsIdle /\ ClassifierIdle /\ CatalogIdle
    /\ ConfigIdle /\ ListerIdle /\ UpdaterIdle

\* cleaned_name = self.clean_container_name(name, image)
CleanName ==
    /\ cn_pc = "input"
    /\ cn_cleaned' = cleaned_name_of(cn_name)
    /\ cn_out' = display_name_of(cn_cleaned', cn_image)
    /\ cn_pc' = "cleaned"
    /\ UNCHANGED << cn_name, cn_image, cn_prev >>
    /\ UNCHANGED << portVars, dbVars, pcVars, cfgVars, lsVars, upVars >>

\* The display name is given to clean_container_name as the name, with the
\* same image.
CleanAgain ==
    /\ cn_pc = "cleaned"
    /\ cn_prev' = cn_out
    /\ cn_name' = cn_out
    /\ cn_cleaned' = cleaned_name_of(cn_out)
    /\ cn_out' = display_name_of(cn_cleaned', cn_image)
    /\ cn_pc' = "refed"
    /\ UNCHANGED cn_image
    /\ UNCHANGED << portVars, dbVars, pcVars, cfgVars, lsVars, upVars >>

NextNormalizer ==
    \/ CleanName
    \/ CleanAgain

SpecNormalizer == InitNormalizer /\ [][NextNormalizer]_vars

----------------------------------------------------------------------------
(* Specification of process_containers *)

MaxContainers == 3

\* Records of the lister: Name, Image, Status, Ports.
Container(name, image, status, port_column) ==
    [ Name |-> name, Image |-> image, Status |-> status, Ports |-> port_column ]

ContainerPool ==
    { Container(<<"p","o","s","t","g","r","e","s">>, <<"p","o","s","t","g","r","e","s",":","1","5">>, "Up 2 hours", <<"0",".","0",".","0",".","0",":","5","4","3","2","-",">","5","4","3","2","/","t","c","p">>),
      Container(<<"w","o","r","k","e","r">>, <<"m","y","o","r","g","/","w","o","r","k","e","r",":","1">>, "Up 2 hours", << >>),
      Container(<<"w","e","b","a","p","p">>, <<"m","y","o","r","g","/","w","e","b","a","p","p",":","l","a","t","e","s","t">>, "Up 2 hours", <<"0",".","0",".","0",".","0",":","8","0","8","0","-",">","8","0","/","t","c","p">>),
      Container(<<"z","e","t","a","-","1">>, <<"z","e","t","a",":","2">>, "Up 5 minutes", <<"0",".","0",".","0",".","0",":","9","0","9","0","-",">","9","0","/","t","c","p">>),
      Container(<<"Z","E","T","A">>, <<"o","t","h","e","r","/","z","e","t","a">>, "Exited (0) 1 hour ago",
                <<"8","0","/","t","c","p",","," ","0",".","0",".","0",".","0",":","9","0","9","1","-",">","9","0","/","t","c","p",","," ","[",":",":","]",":","9","0","9","1","-",">","9","0","/","t","c","p">>),
      Container(<<"s","e","r","v","e","r","-","1">>, <<"a","l","p","h","a",":","1">>, "Up 2 hours", <<"0",".","0",".","0",".","0",":","8","0","8","1","-",">","8","0","/","t","c","p">>) }

InitCatalog ==
    /\ containers = << >>
    /\ services = << >>
    /\ services_again = << >>
    /\ pc_pc = "listing"
    /\ PortsIdle /\ ClassifierIdle /\ NormalizerIdle
    /\ ConfigIdle /\ ListerIdle /\ UpdaterIdle

\* The runtime lists one more container.
ListContainer(c) ==
    /\ pc_pc = "listing"
    /\ Len(containers) < MaxContainers
    /\ containers' = Append(containers, c)
    /\ UNCHANGED << services, services_again, pc_pc >>
    /\ UNCHANGED << portVars, dbVars, cnVars, cfgVars, lsVars, upVars >>

\* services = self.process_containers()
ProcessContainers ==
    /\ pc_pc = "listing"
    /\ services' = process_containers(containers)
    /\ pc_pc' = "processed"
    /\ UNCHANGED << containers, services_again >>
    /\ UNCHANGED << portVars, dbVars, cnVars, cfgVars, lsVars, upVars >>

\* A second self.process_containers() over the same lister output.
ProcessContainersAgain ==
    /\ pc_pc = "processed"
    /\ services_again' = process_containers(containers)
    /\ pc_pc' = "reprocessed"
    /\ UNCHANGED << containers, services >>
    /\ UNCHANGED << portVars, dbVars, cnVars, cfgVars, lsVars, upVars >>

NextCatalog ==
    \/ \E c \in ContainerPool : ListContainer(c)
    \/ ProcessContainers
    \/ ProcessContainersAgain

SpecCatalog == InitCatalog /\ [][NextCatalog]_vars

----------------------------------------------------------------------------
(* Specification of load_config *)

\* default_config, and the order in which default_config.items() yields
\* its keys.
default_config ==
    [ k \in {"hostname", "protocol", "description"} |->
        CASE k = "hostname"    -> "localhost"
          [] k = "protocol"    -> "http"
          [] k = "description" -> "Container Dashboard Configuration" ]

default_keys == << "hostname", "protocol", "description" >>

\* What config.json holds: nothing ("absent"), a file open() cannot read
\* ("unreadable"), text json.load rejects ("not_json"), or a JSON value as
\* json.load returns it: a dict, a list or a number.
NoFile         == [ type |-> "absent" ]
UnreadableFile == [ type |-> "unreadable" ]
NotJson        == [ type |-> "not_json" ]
JsonObject(f)  == [ type |-> "dict", value |-> f ]
JsonArray(a)   == [ type |-> "list", value |-> a ]
JsonNumber     == [ type |-> "int" ]

\* The outcome of a statement that raised TypeError.
TypeError == [ type |-> "TypeError" ]

\* "key in config": by key for a dict, by element for a list; a number
\* raises TypeError.
key_in_raises(config) == config.type \notin {"dict", "list"}

key_in(key, config) ==
    IF config.type = "dict"
    THEN key \in DOMAIN config.value
    ELSE \E i \in 1..Len(config.value) : config.value[i] = key

\* "config[key] = value": only a dict takes a str key.
setitem(config, key, value) ==
    IF config.type = "dict"
    THEN JsonObject([ k \in DOMAIN config.value \cup {key} |->
                        IF k = key THEN value ELSE config.value[k] ])
    ELSE TypeError

\* The merge loop from the i-th default key on; TypeError when a step
\* raises.
RECURSIVE merge_defaults(_, _)
merge_defaults(config, i) ==
    IF i > Len(default_keys) THEN config
    ELSE LET key == default_keys[i]
         IN  IF key_in_raises(config) THEN TypeError
             ELSE IF key_in(key, config) THEN merge_defaults(config, i + 1)
             ELSE LET filled == setitem(config, key, default_config[key])
                  IN  IF filled.type = "TypeError" THEN TypeError
                      ELSE merge_defaults(filled, i + 1)

\* load_config over what config.json holds.  It returns the configuration,
\* what the file holds afterwards, and the return statement taken: line 50
\* ("merged"), line 53 ("except") or line 57 ("created").
load_config(file) ==
    IF file.type # "absent"
    THEN IF file.type \in {"unreadable", "not_json"}
         THEN [ config |-> JsonObject(default_config), file |-> file,
                branch |-> "except" ]
         ELSE LET merged == merge_defaults(file, 1)
              IN  IF merged.type = "TypeError"
                  THEN [ config |-> JsonObject(default_config), file |-> file,
                         branch |-> "except" ]
                  ELSE [ config |-> merged, file |-> file,
                         branch |-> "merged" ]
    ELSE [ config |-> JsonObject(default_config),
           file |-> JsonObject(default_config),
           branch |-> "created" ]

\* Keys and values a config.json may hold.
FileKeys == { "hostname", "protocol", "description", "title" }
FileValues == { "dash.example.org", "https" }

FileObjects ==
    UNION { [ K -> FileValues ] : K \in SUBSET FileKeys }

\* Lists of key names, in the order of default_keys.
RECURSIVE SeqOfKeys(_, _)
SeqOfKeys(K, i) ==
    IF i > Len(default_keys) THEN << >>
    ELSE IF default_keys[i] \in K
         THEN << default_keys[i] >> \o SeqOfKeys(K, i + 1)
         ELSE SeqOfKeys(K, i + 1)

FileArrays == { SeqOfKeys(K, 1) : K \in SUBSET DOMAIN default_config }

ConfigFiles ==
    { NoFile, UnreadableFile, NotJson }
        \cup { JsonObject(f) : f \in FileObjects }
        \cup { JsonArray(a) : a \in FileArrays }
        \cup { JsonNumber }

InitConfig ==
    /\ cfg_file \in ConfigFiles
    /\ cfg_config = [ type |-> "none" ]
    /\ cfg_pc = "stored"
    /\ PortsIdle /\ ClassifierIdle /\ NormalizerIdle /\ CatalogIdle
    /\ ListerIdle /\ UpdaterIdle

\* self.config = self.load_config()
LoadConfig ==
    /\ cfg_pc = "stored"
    /\ LET r == load_config(cfg_file)
       IN  /\ cfg_config' = r.config
           /\ cfg_file' = r.file
           /\ cfg_pc' = r.branch
    /\ UNCHANGED << portVars, dbVars, cnVars, pcVars, lsVars, upVars >>

NextConfig == LoadConfig

SpecConfig == InitConfig /\ [][NextConfig]_vars

----------------------------------------------------------------------------
(* Specification of get_docker_containers and generate_html *)

MaxLines == 2

\* The line break of result.stdout.
NL == "\n"

\* str.strip() of a text with line breaks.
strip_text(s) == strip_chars(s, {" ", NL})

\* The dict made of the first four fields of a line.
container_of(parts) ==
    [ Name |-> parts[1], Image |-> parts[2], Status |-> parts[3], Ports |-> parts[4] ]

\* The loop over the lines of the output, from the k-th line on.
RECURSIVE parse_lines(_, _)
parse_lines(lines, k) ==
    IF k > Len(lines) THEN << >>
    ELSE LET line == lines[k]
             parts == split(line, <<"|">>)
         IN  IF strip_text(line) # << >> /\ Len(parts) >= 4
             THEN << container_of(parts) >> \o parse_lines(lines, k + 1)
             ELSE parse_lines(lines, k + 1)

\* get_docker_containers without "except FileNotFoundError".
get_docker_containers_without_not_found_handler(outcome, stdout) ==
    CASE outcome = "CalledProcessError" ->
           [ containers |-> << >>, raised |-> "none",
             printed |-> << "Error running docker command" >> ]
      [] outcome = "FileNotFoundError" ->
           [ containers |-> << >>, raised |-> "FileNotFoundError",
             printed |-> << >> ]
      [] OTHER ->
           [ containers |-> parse_lines(split(strip_text(stdout), << NL >>), 1),
             raised |-> "none", printed |-> << >> ]

\* get_docker_containers over how subprocess.run ended: "completed" with
\* result.stdout, "CalledProcessError" (non-zero exit under check=True) or
\* "FileNotFoundError" (no docker binary).  It gives the returned list, the
\* exception that left the function, if any, and what was printed.
get_docker_containers(outcome, stdout) ==
    CASE outcome = "CalledProcessError" ->
           [ containers |-> << >>, raised |-> "none",
             printed |-> << "Error running docker command" >> ]
      [] outcome = "FileNotFoundError" ->
           [ containers |-> << >>, raised |-> "none",
             printed |-> << "Docker not found. Please ensure Docker is installed and running." >> ]
      [] OTHER ->
           [ containers |-> parse_lines(split(strip_text(stdout), << NL >>), 1),
             raised |-> "none", printed |-> << >> ]

\* The body generate_html renders for self.services.
html_body(service_list) ==
    IF service_list = << >> THEN "No Services Found" ELSE "services-grid"

\* Lines docker ps may print.
OutputLines ==
    { <<"w","e","b","|","n","g","i","n","x",":","a","l","p","i","n","e","|","U","p"," ","2"," ","h","o","u","r","s","|","0",".","0",".","0",".","0",":","8","0","8","0","-",">","8","0","/","t","c","p">>,
      <<"a","p","i","|","m","y","o","r","g","/","a","p","i",":","1","|","E","x","i","t","e","d"," ","(","0",")"," ","1"," ","h","o","u","r"," ","a","g","o","|","0",".","0",".","0",".","0",":","8","1","-",">","8","1","/","t","c","p",","," ",":",":",":","8","1","-",">","8","1","/","t","c","p">>,
      <<"d","b","|","p","o","s","t","g","r","e","s",":","1","5","|","U","p"," ","2"," ","h","o","u","r","s","|","5","4","3","2","/","t","c","p">>,
      <<"j","o","b","|","b","u","s","y","b","o","x","|","U","p"," ","2"," ","h","o","u","r","s">>,
      <<"n","o","t","e","|","w","i","t","h","|","a","|","0",".","0",".","0",".","0",":","8","2","-",">","8","2","/","t","c","p","|","p","i","p","e">>,
      <<" "," ">>,
      << >> }

Outcomes == { "completed", "CalledProcessError", "FileNotFoundError" }

InitLister ==
    /\ ls_outcome = "none"
    /\ ls_stdout = << >>
    /\ ls_containers = << >>
    /\ ls_log = << >>
    /\ ls_services = << >>
    /\ ls_html = "none"
    /\ ls_pc = "runtime"
    /\ PortsIdle /\ ClassifierIdle /\ NormalizerIdle /\ CatalogIdle
    /\ ConfigIdle /\ UpdaterIdle

\* The runtime prints one more line.
PrintLine(line) ==
    /\ ls_pc = "runtime"
    /\ Len(SelectSeq(ls_stdout, LAMBDA c : c = NL)) < MaxLines
    /\ ls_stdout' = ls_stdout \o line \o << NL >>
    /\ UNCHANGED << ls_outcome, ls_containers, ls_log, ls_services, ls_html, ls_pc >>
    /\ UNCHANGED << portVars, dbVars, cnVars, pcVars, cfgVars, upVars >>

\* generate_html: process_containers calls get_docker_containers, and the
\* body is chosen by whether any service is left.  Without a docker binary
\* there is no output.
GenerateHtml(outcome) ==
    /\ ls_pc = "runtime"
    /\ outcome = "FileNotFoundError" => ls_stdout = << >>
    /\ ls_outcome' = outcome
    /\ LET r == get_docker_containers(outcome, ls_stdout)
       IN  IF r.raised # "none"
           THEN /\ ls_pc' = "raised"
                /\ ls_log' = r.printed
                /\ UNCHANGED << ls_containers, ls_services, ls_html >>
           ELSE /\ ls_containers' = r.containers
                /\ ls_log' = r.printed
                /\ ls_services' = process_containers(r.containers)
                /\ ls_html' = html_body(ls_services')
                /\ ls_pc' = "rendered"
    /\ UNCHANGED ls_stdout
    /\ UNCHANGED << portVars, dbVars, cnVars, pcVars, cfgVars, upVars >>

NextLister ==
    \/ \E line \in OutputLines : PrintLine(line)
    \/ \E outcome \in Outcomes : GenerateHtml(outcome)

SpecLister == InitLister /\ [][NextLister]_vars

----------------------------------------------------------------------------
(* Specification of the scheduler and the web listener (update_dashboard.py) *)

\* self.update_interval in seconds, the longest a pipeline run takes, and
\* the number of termination signals delivered.
UpdateInterval == 2
MaxRunTime == 1
MaxSignals == 1

\* The documents generate_html renders, by their body.
Pages == { "No Services Found", "services-grid" }

\* The paths a client asks for.
Paths == { "/", "/dashboard", "/api/refresh", "/favicon.ico" }

\* open(output_file, 'w'): the file exists and is empty from then on.
open_for_writing(file) == "empty"

\* f.write(html_content) and the close: the document, unless another
\* writer's text is already in the file, in which case what lies beyond
\* the end of the shorter document stays.
written(file, page) ==
    IF file = "empty" THEN { page } ELSE { page, "mixed" }

\* The answer to GET / without the FileNotFoundError handler.
serve_dashboard_without_not_found_handler(file) ==
    IF file = "absent"
    THEN << "500", "Error loading dashboard" >>
    ELSE << "200", file >>

\* The answer to GET / or /dashboard: the status line and the body, from
\* what index.html holds.
serve_dashboard(file) ==
    IF file = "absent"
    THEN << "404", "Dashboard Not Found" >>
    ELSE << "200", file >>

\* The answer to any other path.
serve_other == << "404", "Page Not Found" >>

\* "current_time - last_update >= self.update_interval" without the
\* interval.
is_due_without_interval(age) == age >= 0

\* current_time - last_update >= self.update_interval
is_due(age) == age >= UpdateInterval

InitUpdater ==
    /\ running = FALSE
    /\ main_pc = "init_update"
    /\ web_enabled \in BOOLEAN
    /\ web_pc = "idle"
    /\ signals = 0
    /\ age_last = 0
    /\ age_cur = 0
    /\ age_run = 0
    /\ gap = 0
    /\ last_result = "none"
    /\ index_html \in {"absent"} \cup Pages
    /\ writers = {}
    /\ tainted = FALSE
    /\ last_completed = IF index_html = "absent" THEN "none" ELSE index_html
    /\ main_page = "none"
    /\ web_page = "none"
    /\ request = "none"
    /\ response = << >>
    /\ PortsIdle /\ ClassifierIdle /\ NormalizerIdle /\ CatalogIdle
    /\ ConfigIdle /\ ListerIdle

otherVars == << portVars, dbVars, cnVars, pcVars, cfgVars, lsVars >>

\* signal_handler, run in the main thread between two of its steps.
SignalHandler ==
    /\ main_pc \notin {"idle", "stopped"}
    /\ signals < MaxSignals
    /\ signals' = signals + 1
    /\ running' = FALSE
    /\ UNCHANGED << main_pc, age_last, age_cur, age_run, gap, last_result, main_page >>
    /\ UNCHANGED << webVars, diskVars, otherVars >>

\* Where the main thread goes when update_dashboard has returned, and the
\* "last_update = current_time" that follows it in the loop.
AfterUpdate(d) ==
    IF main_pc \in {"init_update", "init_write"}
    THEN /\ main_pc' = "start_web"
         /\ age_run' = age_run + d
         /\ UNCHANGED << age_last, age_cur >>
    ELSE /\ main_pc' = "sleep"
         /\ age_run' = age_run + d
         /\ age_last' = age_cur + d
         /\ age_cur' = 0

\* update_dashboard -> save_html: generate_html, then open(output_file, 'w').
MainRender(page) ==
    /\ main_pc \in {"init_update", "loop_update"}
    /\ main_page' = page
    /\ index_html' = open_for_writing(index_html)
    /\ tainted' = (writers # {})
    /\ writers' = writers \cup {"main"}
    /\ main_pc' = IF main_pc = "init_update" THEN "init_write" ELSE "loop_write"
    /\ UNCHANGED << running, signals, age_last, age_cur, age_run, gap, last_result >>
    /\ UNCHANGED << last_completed, webVars, otherVars >>

\* generate_html or open raises: update_dashboard prints and returns False.
MainRenderFails(d) ==
    /\ main_pc \in {"init_update", "loop_update"}
    /\ last_result' = "False"
    /\ AfterUpdate(d)
    /\ UNCHANGED << running, signals, gap, main_page >>
    /\ UNCHANGED << webVars, diskVars, otherVars >>

\* f.write and the close: update_dashboard returns True.
MainWrite(d) ==
    /\ main_pc \in {"init_write", "loop_write"}
    /\ index_html' \in written(index_html, main_page)
    /\ writers' = writers \ {"main"}
    /\ last_completed' = main_page
    /\ last_result' = "True"
    /\ main_page' = "none"
    /\ AfterUpdate(d)
    /\ UNCHANGED << running, signals, gap, tainted >>
    /\ UNCHANGED << webVars, otherVars >>

\* f.write raises: the file stays as far as it was written.
MainWriteFails(d) ==
    /\ main_pc \in {"init_write", "loop_write"}
    /\ writers' = writers \ {"main"}
    /\ tainted' = TRUE
    /\ last_result' = "False"
    /\ main_page' = "none"
    /\ AfterUpdate(d)
    /\ UNCHANGED << running, signals, gap, index_html, last_completed >>
    /\ UNCHANGED << webVars, otherVars >>

\* run, lines 169-172: the listener thread is started when enabled.
StartWebThread ==
    /\ main_pc = "start_web"
    /\ web_pc' = IF web_enabled THEN "starting" ELSE web_pc
    /\ main_pc' = "set_running"
    /\ UNCHANGED << running, signals, age_last, age_cur, age_run, gap, last_result, main_page >>
    /\ UNCHANGED << web_enabled, web_page, request, response, diskVars, otherVars >>

\* run, lines 174-175: self.running = True; last_update = time.time().
SetRunning ==
    /\ main_pc = "set_running"
    /\ running' = TRUE
    /\ age_last' = 0
    /\ main_pc' = "loop_test"
    /\ UNCHANGED << signals, age_cur, age_run, gap, last_result, main_page >>
    /\ UNCHANGED << webVars, diskVars, otherVars >>

\* run, line 178: while self.running.
LoopTest ==
    /\ main_pc = "loop_test"
    /\ main_pc' = IF running THEN "loop_check" ELSE "finally"
    /\ UNCHANGED << running, signals, age_last, age_cur, age_run, gap, last_result, main_page >>
    /\ UNCHANGED << webVars, diskVars, otherVars >>

\* run, lines 179-182: current_time = time.time() and the interval test.
LoopCheck ==
    /\ main_pc = "loop_check"
    /\ age_cur' = 0
    /\ IF is_due(age_last)
       THEN /\ main_pc' = "loop_update"
            /\ gap' = age_run
            /\ age_run' = 0
       ELSE /\ main_pc' = "sleep"
            /\ UNCHANGED << gap, age_run >>
    /\ UNCHANGED << running, signals, age_last, last_result, main_page >>
    /\ UNCHANGED << webVars, diskVars, otherVars >>

\* run, line 187: time.sleep(1).
Sleep ==
    /\ main_pc = "sleep"
    /\ age_last' = age_last + 1
    /\ age_run' = age_run + 1
    /\ main_pc' = "loop_test"
    /\ UNCHANGED << running, signals, age_cur, gap, last_result, main_page >>
    /\ UNCHANGED << webVars, diskVars, otherVars >>

\* run, lines 191-193: finally: self.running = False, and run returns.
Finally ==
    /\ main_pc = "finally"
    /\ running' = FALSE
    /\ main_pc' = "stopped"
    /\ UNCHANGED << signals, age_last, age_cur, age_run, gap, last_result, main_page >>
    /\ UNCHANGED << webVars, diskVars, otherVars >>

\* The steps of the main thread.
MainStep ==
    \/ \E page \in Pages : MainRender(page)
    \/ \E d \in 0..MaxRunTime : MainRenderFails(d)
    \/ \E d \in 0..MaxRunTime : MainWrite(d)
    \/ \E d \in 0..MaxRunTime : MainWriteFails(d)
    \/ StartWebThread
    \/ SetRunning
    \/ LoopTest
    \/ LoopCheck
    \/ Sleep
    \/ Finally

\* start_web_server, lines 143-145: the server is created and bound.
CreateServer ==
    /\ main_pc # "stopped"
    /\ web_pc = "starting"
    /\ web_pc' = "web_test"
    /\ UNCHANGED << web_enabled, web_page, request, response >>
    /\ UNCHANGED << loopVars, diskVars, otherVars >>

\* HTTPServer raises (the port is taken): lines 153-154 print the error.
CreateServerFails ==
    /\ main_pc # "stopped"
    /\ web_pc = "starting"
    /\ web_pc' = "web_error"
    /\ UNCHANGED << web_enabled, web_page, request, response >>
    /\ UNCHANGED << loopVars, diskVars, otherVars >>

\* start_web_server, line 147: while self.running.
WebTest ==
    /\ main_pc # "stopped"
    /\ web_pc = "web_test"
    /\ web_pc' = IF running THEN "web_handle" ELSE "web_close"
    /\ UNCHANGED << web_enabled, web_page, request, response >>
    /\ UNCHANGED << loopVars, diskVars, otherVars >>

\* handle_request -> do_GET for / and /dashboard, lines 53-85.  index.html
\* is a file this process writes itself: a read error other than
\* FileNotFoundError (the 500 of lines 75-85) is left out.
GetDashboard(path) ==
    /\ main_pc # "stopped"
    /\ web_pc = "web_handle"
    /\ path \in {"/", "/dashboard"}
    /\ request' = path
    /\ response' = serve_dashboard(index_html)
    /\ web_pc' = "web_sleep"
    /\ UNCHANGED << web_enabled, web_page >>
    /\ UNCHANGED << loopVars, diskVars, otherVars >>

\* handle_request -> do_GET for any other path, lines 87-102.
GetOther(path) ==
    /\ main_pc # "stopped"
    /\ web_pc = "web_handle"
    /\ path \notin {"/", "/dashboard", "/api/refresh"}
    /\ request' = path
    /\ response' = serve_other
    /\ web_pc' = "web_sleep"
    /\ UNCHANGED << web_enabled, web_page >>
    /\ UNCHANGED << loopVars, diskVars, otherVars >>

\* handle_request -> do_GET for /api/refresh, lines 26-29: the status
\* line 200 and the headers are sent before the try.
GetRefresh ==
    /\ main_pc # "stopped"
    /\ web_pc = "web_handle"
    /\ request' = "/api/refresh"
    /\ response' = << "200" >>
    /\ web_pc' = "refresh_render"
    /\ UNCHANGED << web_enabled, web_page >>
    /\ UNCHANGED << loopVars, diskVars, otherVars >>

\* do_GET, lines 32-33: DockerManager(), generate_html and the open of
\* save_html.
RefreshRender(page) ==
    /\ main_pc # "stopped"
    /\ web_pc = "refresh_render"
    /\ web_page' = page
    /\ index_html' = open_for_writing(index_html)
    /\ tainted' = (writers # {})
    /\ writers' = writers \cup {"web"}
    /\ web_pc' = "refresh_write"
    /\ UNCHANGED << web_enabled, request, response, last_completed >>
    /\ UNCHANGED << loopVars, otherVars >>

\* They raise: lines 42-51 send the status line 500 and the error body.
RefreshRenderFails ==
    /\ main_pc # "stopped"
    /\ web_pc = "refresh_render"
    /\ response' = response \o << "500", "error" >>
    /\ web_pc' = "web_sleep"
    /\ UNCHANGED << web_enabled, web_page, request >>
    /\ UNCHANGED << loopVars, diskVars, otherVars >>

\* do_GET, lines 33-41: the write of save_html, then the success body.
RefreshWrite ==
    /\ main_pc # "stopped"
    /\ web_pc = "refresh_write"
    /\ index_html' \in written(index_html, web_page)
    /\ writers' = writers \ {"web"}
    /\ last_completed' = web_page
    /\ response' = response \o << "success" >>
    /\ web_page' = "none"
    /\ web_pc' = "web_sleep"
    /\ UNCHANGED << web_enabled, request, tainted >>
    /\ UNCHANGED << loopVars, otherVars >>

\* The write raises: lines 42-51 send the status line 500 and the error
\* body.
RefreshWriteFails ==
    /\ main_pc # "stopped"
    /\ web_pc = "refresh_write"
    /\ writers' = writers \ {"web"}
    /\ tainted' = TRUE
    /\ response' = response \o << "500", "error" >>
    /\ web_page' = "none"
    /\ web_pc' = "web_sleep"
    /\ UNCHANGED << web_enabled, request, index_html, last_completed >>
    /\ UNCHANGED << loopVars, otherVars >>

\* start_web_server, line 149: handle_request has returned, the connection
\* is closed; time.sleep(0.1).
WebSleep ==
    /\ main_pc # "stopped"
    /\ web_pc = "web_sleep"
    /\ web_pc' = "web_test"
    /\ request' = "none"
    /\ response' = << >>
    /\ UNCHANGED << web_enabled, web_page >>
    /\ UNCHANGED << loopVars, diskVars, otherVars >>

\* start_web_server, lines 150-151: server.server_close() and the message.
WebClose ==
    /\ main_pc # "stopped"
    /\ web_pc = "web_close"
    /\ web_pc' = "web_stopped"
    /\ UNCHANGED << web_enabled, web_page, request, response >>
    /\ UNCHANGED << loopVars, diskVars, otherVars >>

\* The steps of the listener thread.
WebStep ==
    \/ CreateServer
    \/ CreateServerFails
    \/ WebTest
    \/ \E path \in Paths : GetDashboard(path)
    \/ \E path \in Paths : GetOther(path)
    \/ GetRefresh
    \/ \E page \in Pages : RefreshRender(page)
    \/ RefreshRenderFails
    \/ RefreshWrite
    \/ RefreshWriteFails
    \/ WebSleep
    \/ WebClose

NextUpdater ==
    \/ SignalHandler
    \/ MainStep
    \/ WebStep

\* The main thread is a running thread: it takes its next step.
SpecUpdater == InitUpdater /\ [][NextUpdater]_vars /\ WF_vars(MainStep)

----------------------------------------------------------------------------
(* Properties of parse_ports *)

IsDigitString(s) == s # << >> /\ \A i \in 1..Len(s) : s[i] \in Digits

\* A clause that starts with "::" and has no "->"
IsBareIPv6(c) ==
    /\ startswith(strip(ClauseText(c)), <<":", ":">>)
    /\ ~contains(ClauseText(c), <<"-", ">">>)

\* C2: every mapping parse_ports emits has a host port and a container port
\* that are non-empty strings of decimal digits.
C2_MappingsAreDigitStrings ==
    pp_pc = "parsed" =>
        \A i \in 1..Len(ports) :
            IsDigitString(ports[i][1]) /\ IsDigitString(ports[i][2])

\* C3: when every clause is <ip>:<host>-><container>/<proto>, parse_ports
\* returns one mapping per clause, in order: the clause's host port and
\* container port, whatever the host interface is.
C3_ExplicitMappingsParsed ==
    (pp_pc = "parsed" /\ \A i \in 1..Len(clauses) : clauses[i].kind = "arrow") =>
        ports = [i \in 1..Len(clauses) |-> << clauses[i].host, clauses[i].cont >>]

\* C10: shorthand clauses <h>:<c>/<proto> give the mapping (h, c) each; a
\* clause that starts with "::" and has no "->" adds nothing (the result is
\* that of the column without such clauses); the empty string, and a column
\* of only such clauses, give the empty sequence.
C10_ShorthandAndBareIPv6 ==
    pp_pc = "parsed" =>
        /\ (\A i \in 1..Len(clauses) : clauses[i].kind = "short") =>
               ports = [i \in 1..Len(clauses) |-> << clauses[i].host, clauses[i].cont >>]
        /\ ports = parse_ports(PortsColumn(SelectSeq(clauses, LAMBDA c : ~IsBareIPv6(c))))
        /\ (\A i \in 1..Len(clauses) : IsBareIPv6(clauses[i])) => ports = << >>
        /\ ports_str = << >> => ports = << >>

\* C10, its case: "5432:5432/tcp" beside a bare "::1" has been parsed into
\* the one mapping (5432, 5432).
C10_Witness ==
    /\ pp_pc = "parsed"
    /\ Len(clauses) = 2
    /\ clauses[1].kind = "short" /\ clauses[1].host = <<"5","4","3","2">>
    /\ clauses[2].kind = "raw" /\ clauses[2].text = <<":",":","1">>
    /\ ports = << << <<"5","4","3","2">>, <<"5","4","3","2">> >> >>

----------------------------------------------------------------------------
(* Properties of is_database_container *)

\* C5, as claimed: the classifier gives the same answer with name and image
\* exchanged; it is true of ("mypg", "alpine") and of ("myapp", "postgres:15")
\* and false of ("webapp", "myorg/webapp:latest").
C5_SymmetricWithExamples ==
    db_pc = "classified" =>
        /\ db_result = is_database_container(db_image, db_name)
        /\ (db_name = <<"m","y","p","g">> /\ db_image = <<"a","l","p","i","n","e">>) => db_result
        /\ (db_name = <<"m","y","a","p","p">> /\ db_image = <<"p","o","s","t","g","r","e","s",":","1","5">>) => db_result
        /\ (db_name = <<"w","e","b","a","p","p">> /\ db_image = <<"m","y","o","r","g","/","w","e","b","a","p","p",":","l","a","t","e","s","t">>) => ~db_result

\* C5, amended: the classifier gives the same answer with name and image
\* exchanged; it is true of ("myapp", "postgres:15"), and false of
\* ("mypg", "alpine") and of ("webapp", "myorg/webapp:latest").
C5_SymmetricMypgNotInfra ==
    db_pc = "classified" =>
        /\ db_result = is_database_container(db_image, db_name)
        /\ (db_name = <<"m","y","p","g">> /\ db_image = <<"a","l","p","i","n","e">>) => ~db_result
        /\ (db_name = <<"m","y","a","p","p">> /\ db_image = <<"p","o","s","t","g","r","e","s",":","1","5">>) => db_result
        /\ (db_name = <<"w","e","b","a","p","p">> /\ db_image = <<"m","y","o","r","g","/","w","e","b","a","p","p",":","l","a","t","e","s","t">>) => ~db_result

\* C5, its case: a keyword in the image alone has classified the container.
C5_Witness ==
    /\ db_pc = "classified"
    /\ db_name = <<"m","y","a","p","p">>
    /\ db_image = <<"p","o","s","t","g","r","e","s",":","1","5">>
    /\ db_result

----------------------------------------------------------------------------
(* Properties of clean_container_name *)

\* The segments of a name between the separators '-', '_', '.' and ' '.
RECURSIVE Segments(_)
Segments(s) ==
    LET cut == {i \in 1..Len(s) : s[i] \in {"-", "_", ".", " "}}
    IN  IF cut = {} THEN << s >>
        ELSE LET i == CHOOSE x \in cut : \A y \in cut : x <= y
             IN  << SubSeq(s, 1, i - 1) >> \o Segments(SubSeq(s, i + 1, Len(s)))

\* A name made only of generic terms and single digits, joined by separators.
OnlyGenericSegments(s) ==
    /\ Len(Segments(s)) >= 2
    /\ \A i \in 1..Len(Segments(s)) :
           \E k \in 1..Len(generic_terms) : generic_terms[k] = Segments(s)[i]

\* The base image: the last '/'-separated component of the reference, cut at
\* its first ':' or '@'.
BaseImage(image) ==
    LET slashes == {i \in 1..Len(image) : image[i] = "/"}
        from    == IF slashes = {} THEN 1
                   ELSE (CHOOSE i \in slashes : \A j \in slashes : j <= i) + 1
        last    == SubSeq(image, from, Len(image))
        cuts    == {i \in 1..Len(last) : last[i] \in {":", "@"}}
    IN  IF cuts = {} THEN last
        ELSE SubSeq(last, 1, (CHOOSE i \in cuts : \A j \in cuts : i <= j) - 1)

\* C4: the display name clean_container_name returns is never empty.
C4_DisplayNameNonEmpty ==
    cn_pc # "input" => cn_out # << >>

\* C6: a name made only of generic terms and single digits joined by
\* separators gets the title-cased base image as its display name.
C6_GenericNameFallsBack ==
    (cn_pc = "cleaned" /\ OnlyGenericSegments(cn_name)) =>
        cn_out = capitalize_words(BaseImage(cn_image))

C8_Idempotent ==
    cn_pc = "refed" => cn_out = cn_prev

----------------------------------------------------------------------------
(* Properties of process_containers *)

\* The records that pass both filters.
Eligible ==
    { k \in 1..Len(containers) :
        /\ ~is_database_container(containers[k].Name, containers[k].Image)
        /\ parse_ports(containers[k].Ports) # << >> }

PostgresRecord ==
    Container(<<"p","o","s","t","g","r","e","s">>, <<"p","o","s","t","g","r","e","s",":","1","5">>, "Up 2 hours", <<"0",".","0",".","0",".","0",":","5","4","3","2","-",">","5","4","3","2","/","t","c","p">>)
NoPortsRecord ==
    Container(<<"w","o","r","k","e","r">>, <<"m","y","o","r","g","/","w","o","r","k","e","r",":","1">>, "Up 2 hours", << >>)
WebAppRecord ==
    Container(<<"w","e","b","a","p","p">>, <<"m","y","o","r","g","/","w","e","b","a","p","p",":","l","a","t","e","s","t">>, "Up 2 hours", <<"0",".","0",".","0",".","0",":","8","0","8","0","-",">","8","0","/","t","c","p">>)

\* C1: process_containers emits exactly one service for each record that is
\* not classified as a database and has a parsed port mapping, none for any
\* other record, so every service has a port mapping; the Postgres record,
\* the record without ports and the web app give the web app alone.
C1_OneServicePerEligibleRecord ==
    pc_pc = "processed" =>
        /\ Len(services) = Cardinality(Eligible)
        /\ {services[i].src : i \in 1..Len(services)} = Eligible
        /\ \A i \in 1..Len(services) :
               /\ Len(services[i].ports) >= 1
               /\ services[i].image = containers[services[i].src].Image
        /\ containers = << PostgresRecord, NoPortsRecord, WebAppRecord >> =>
               /\ Len(services) = 1
               /\ services[1].image = WebAppRecord.Image
               /\ Len(services[1].ports) = 1

\* C1, its case: the three records of the example have been processed.
C1_Witness ==
    /\ pc_pc = "processed"
    /\ containers = << PostgresRecord, NoPortsRecord, WebAppRecord >>
    /\ Len(services) = 1

\* Services named "Zeta", "alpha", "Beta", as they were enumerated.
NamedService(name, k) == DockerService(name, << >>, "", << << <<"8","0">>, <<"8","0">> >> >>, k)
ZetaAlphaBeta == << NamedService(<<"Z","e","t","a">>, 1), NamedService(<<"a","l","p","h","a">>, 2), NamedService(<<"B","e","t","a">>, 3) >>

\* C9: the returned list is in ascending order of the lower-cased display
\* name, and services of equal lower-cased names are in the order in which
\* their containers were enumerated; "Zeta", "alpha", "Beta" are sorted to
\* alpha, Beta, Zeta.
C9_SortedCaseInsensitiveStable ==
    /\ pc_pc = "processed" =>
           \A i, j \in 1..Len(services) :
               i < j =>
                   /\ ~str_lt(lower(services[j].name), lower(services[i].name))
                   /\ lower(services[i].name) = lower(services[j].name) =>
                          services[i].src < services[j].src
    /\ LET sorted == sort_services(ZetaAlphaBeta)
       IN  << sorted[1].name, sorted[2].name, sorted[3].name >> = << <<"a","l","p","h","a">>, <<"B","e","t","a">>, <<"Z","e","t","a">> >>

\* C9, its case: the sort moved a service before one enumerated earlier and
\* kept two services of the same display name in their order of enumeration.
C9_Witness ==
    /\ pc_pc = "processed"
    /\ \E i, j \in 1..Len(services) :
           i < j /\ services[i].src > services[j].src
    /\ \E i, j \in 1..Len(services) :
           /\ i < j
           /\ services[i].name = services[j].name
           /\ services[i].image # services[j].image

----------------------------------------------------------------------------
(* Properties of two runs of process_containers *)

----------------------------------------------------------------------------
(* Properties of load_config *)

\* The file is a JSON object holding some of the keys.
IsConfigObject(file) == file.type = "dict"

\* C17: the configuration load_config returns is a mapping holding
\* hostname, protocol and description; a key the file holds keeps the
\* file's value and a key it lacks gets the default; a file that cannot be
\* read or does not hold a configuration object yields the defaults; an
\* absent file is created holding the defaults, which are returned.
C17_ConfigHasAllKeys ==
    cfg_pc \notin {"idle", "stored"} =>
        /\ cfg_config.type = "dict"
        /\ DOMAIN default_config \subseteq DOMAIN cfg_config.value
        /\ IsConfigObject(cfg_file) /\ cfg_pc # "created" =>
              \A k \in DOMAIN cfg_config.value :
                  cfg_config.value[k] =
                      IF k \in DOMAIN cfg_file.value
                      THEN cfg_file.value[k] ELSE default_config[k]
        /\ ~IsConfigObject(cfg_file) =>
              cfg_config = JsonObject(default_config)
        /\ cfg_pc = "created" =>
              /\ cfg_file = JsonObject(default_config)
              /\ cfg_config = JsonObject(default_config)

----------------------------------------------------------------------------
(* Properties of get_docker_containers *)

\* The lines of the output that hold at least four fields, that is at
\* least three "|".
FullLines(stdout) ==
    SelectSeq(split(stdout, << NL >>),
              LAMBDA line : Cardinality({ i \in 1..Len(line) : line[i] = "|" }) >= 3)

\* C15: get_docker_containers never raises when the runtime is unusable:
\* without a docker binary, and after a non-zero exit, it prints a message
\* and returns the empty list, and the pipeline still renders the page,
\* with an empty catalog and the "No Services Found" body; of the lines of
\* a completed run, those with fewer than four "|"-separated fields are
\* skipped and every other line gives one record, in order.
C15_UnusableRuntimeGivesEmptyCatalog ==
    /\ ls_pc # "raised"
    /\ ls_pc = "rendered" /\ ls_outcome \in {"CalledProcessError", "FileNotFoundError"} =>
          /\ ls_containers = << >>
          /\ ls_log # << >>
          /\ ls_services = << >>
          /\ ls_html = "No Services Found"
    /\ ls_pc = "rendered" /\ ls_outcome = "completed" =>
          /\ Len(ls_containers) = Len(FullLines(ls_stdout))
          /\ \A i \in 1..Len(ls_containers) :
                LET line == FullLines(ls_stdout)[i]
                IN  startswith(line, ls_containers[i].Name \o <<"|">> \o ls_containers[i].Image
                                     \o <<"|">> \o ls_containers[i].Status \o <<"|">>
                                     \o ls_containers[i].Ports)

\* A non-zero exit after docker printed a full line: the line is not read,
\* the message is printed and the page says "No Services Found".
C15_Witness ==
    /\ ls_pc = "rendered"
    /\ ls_outcome = "CalledProcessError"
    /\ FullLines(ls_stdout) # << >>
    /\ ls_log # << >>
    /\ ls_containers = << >>
    /\ ls_html = "No Services Found"

----------------------------------------------------------------------------
(* Properties of the scheduler and the web listener *)

\* C11: once SIGINT or SIGTERM has been delivered, at any point after the
\* handlers were installed and also during the initial update, the control
\* loop eventually exits: run reaches its end.
C11_SignalStopsLoop ==
    (signals > 0) ~> (main_pc = "stopped")

\* C12: when the handler of GET /api/refresh is done, it has sent either
\* the status line 200 and the success body, or the status line 500 and
\* the error body and no status line 200.
C12_RefreshSendsOneStatus ==
    request = "/api/refresh" /\ web_pc = "web_sleep" =>
        \/ response = << "200", "success" >>
        \/ response = << "500", "error" >>

\* C18: the listener thread closes its server socket and stops only after
\* a termination signal has been delivered.
C18_ListenerOutlivesLoop ==
    web_pc \in {"web_close", "web_stopped"} => signals > 0

\* The main thread is about to start a pipeline run.
RunStarts == main_pc \in {"init_update", "loop_update"}

\* update_dashboard returns to the loop in this step.
LoopRunReturns ==
    /\ main_pc \in {"loop_update", "loop_write"}
    /\ main_pc' \notin {"loop_update", "loop_write"}

\* The run that returns in this step has written its document.
RunWroteDocument ==
    /\ main_pc = "loop_write"
    /\ "main" \in writers /\ "main" \notin writers'
    /\ last_completed' = main_page
    /\ index_html' \in { main_page, "mixed" }

\* C13: run() performs one pipeline run at start-up; the loop starts a run
\* only when at least UpdateInterval seconds have passed since the
\* previous scheduled run started; a run of the loop, failed or not, is
\* followed by the sleep, never by the end of the loop or by another run
\* at once; the loop ends only after a signal; and as long as no signal
\* has been delivered, another run is always eventually started.
C13_RunsEveryInterval ==
    /\ [](main_pc \notin {"init_update", "init_write"} => last_result # "none")
    /\ [](main_pc \in {"loop_update", "loop_write"} => gap >= UpdateInterval)
    /\ [](main_pc \in {"finally", "stopped"} => signals > 0)
    /\ [][LoopRunReturns =>
            /\ main_pc' = "sleep"
            /\ last_result' \in {"True", "False"}
            /\ last_result' = "True" => RunWroteDocument
            /\ main_pc = "loop_update" => last_result' = "False"
            /\ age_last' <= MaxRunTime]_vars
    /\ [](signals = 0 => <>(RunStarts \/ signals > 0))

\* A run of the loop is due after update_dashboard returned False, with no
\* signal delivered.
C13_Witness ==
    /\ main_pc = "loop_update"
    /\ last_result = "False"
    /\ gap >= UpdateInterval
    /\ running
    /\ signals = 0

\* The handler answers a GET of / or /dashboard in this step.
ServesDashboard ==
    /\ web_pc = "web_handle"
    /\ web_pc' = "web_sleep"
    /\ request' \in {"/", "/dashboard"}

\* The handler answers a GET of a path other than /, /dashboard and
\* /api/refresh in this step.
ServesOther ==
    /\ web_pc = "web_handle"
    /\ web_pc' # "web_handle"
    /\ request' \notin {"/", "/dashboard", "/api/refresh"}

\* The answer is the HTML of the most recently completed pipeline run, or
\* the help page when there never was one.
AnswersLastCompletedRun ==
    \/ /\ last_completed \in Pages
       /\ response' = << "200", last_completed >>
    \/ /\ last_completed = "none"
       /\ response' = << "404", "Dashboard Not Found" >>

=============================================================================
